---- MODULE Spec2Model ----
(***************************************************************************)
(* Model of the raw agent of binance-cryptoexchange-api (src/index.ts).    *)
(* The file holds two released variants of the same agent: the first       *)
(* (lines 1-591) and the later one (lines 593-1051), which adds recvWindow  *)
(* and validateStatus and always sends the signed data in the query string. *)
(* The variable `variant` says which of the two is loaded.                  *)
(*                                                                         *)
(* JavaScript values are tagged records, so that values of different types *)
(* can be compared and so that truthiness and property reads behave as in   *)
(* JavaScript (a read on undefined or null throws a TypeError).             *)
(***************************************************************************)
EXTENDS Integers, Sequences, FiniteSets, TLC

VARIABLES variant, auth, calls, invocations

vars == <<variant, auth, calls, invocations>>

---------------------------------------------------------------------------
(* JavaScript values *)

Undefined == [t |-> "undefined"]

Null == [t |-> "null"]

Str(s) == [t |-> "string", s |-> s]

Num(n) == [t |-> "number", n |-> n]

Bool(b) == [t |-> "boolean", b |-> b]

\* an object whose key order does not matter to the agent (configurations,
\* headers, errors, responses): a function from keys to values
Obj(f) == [t |-> "object", f |-> f]

\* an object whose key order matters (it is serialised by qs.stringify):
\* the sequence of its <<key, value>> pairs in insertion order
Body(kv) == [t |-> "object", kv |-> kv]

\* a function value, named by its source text
Fn(src) == [t |-> "function", src |-> src]

\* the TypeError thrown by reading property `prop` of undefined or null
TypeError(prop) == [t |-> "TypeError", prop |-> prop]

IsNullish(v) == v.t \in {"undefined", "null"}

\* JavaScript truthiness, as used by `!x` and `a || b`
Truthy(v) ==
    CASE v.t = "undefined" -> FALSE
      [] v.t = "null"      -> FALSE
      [] v.t = "string"    -> v.s # ""
      [] v.t = "number"    -> v.n # 0
      [] v.t = "boolean"   -> v.b
      [] OTHER             -> TRUE

IsOrdered(v) == v.t = "object" /\ "kv" \in DOMAIN v

Keys(kv) == { kv[i][1] : i \in DOMAIN kv }

Lookup(kv, k) == kv[CHOOSE i \in DOMAIN kv : kv[i][1] = k][2]

\* v[k] on a value that is not undefined or null
Get(v, k) ==
    IF v.t # "object" THEN Undefined
    ELSE IF IsOrdered(v)
         THEN IF k \in Keys(v.kv) THEN Lookup(v.kv, k) ELSE Undefined
         ELSE IF k \in DOMAIN v.f THEN v.f[k] ELSE Undefined

\* the own enumerable properties `...v` spreads: none for undefined and null
Props(v) == IF v.t = "object" /\ ~IsOrdered(v) THEN v.f ELSE <<>>

\* { ...a, ...b } on unordered property maps: b overwrites a key for key
Merge(a, b) ==
    [k \in DOMAIN a \cup DOMAIN b |-> IF k \in DOMAIN b THEN b[k] ELSE a[k]]

\* obj[k] = v on an ordered object: an existing key keeps its position and
\* takes the new value, a new key goes last
Put(kv, k, v) ==
    IF k \in Keys(kv)
    THEN [i \in DOMAIN kv |-> IF kv[i][1] = k THEN <<k, v>> ELSE kv[i]]
    ELSE Append(kv, <<k, v>>)

\* the pairs `...v` spreads, in order
Pairs(v) == IF IsOrdered(v) THEN v.kv ELSE <<>>


---------------------------------------------------------------------------
(* qs.stringify and the HMAC *)

\* String(v) for the scalars a body holds
ToStr(v) == IF v.t = "number" THEN ToString(v.n) ELSE v.s

\* qs's default encoder (percent-encoding): every character outside the
\* unreserved set is escaped.  Of the strings of this model only the ones
\* listed hold such a character.
Encode(s) ==
    CASE s = "BTC USDT" -> "BTC%20USDT"
      [] s = "a&b"      -> "a%26b"
      [] OTHER          -> s

RECURSIVE Join(_)
\* key=value pairs joined by "&", in the order of the pairs
Join(kv) ==
    IF kv = <<>> THEN ""
    ELSE LET p    == Head(kv)
             head == Encode(p[1]) \o "=" \o Encode(ToStr(p[2]))
         IN IF Tail(kv) = <<>> THEN head ELSE head \o "&" \o Join(Tail(kv))

\* qs.stringify(v): "" for undefined, null and the empty object
stringify(v) == Join(Pairs(v))

\* crypto.createHmac('sha256', secret).update(message).digest('hex'): the
\* digest is kept symbolic, one distinct hex string per (secret, message)
Hmac(secret, message) == "hmac[" \o secret \o "][" \o message \o "]"

---------------------------------------------------------------------------
(* Module-level configuration *)

defaultConfig(v) ==
    IF v = 1
    THEN [rootUrl |-> Str("https://api.binance.com"),
          timeout |-> Num(3000),
          version |-> Str("v3")]
    ELSE [recvWindow |-> Num(5000),
          rootUrl    |-> Str("https://api.binance.com"),
          timeout    |-> Num(3000),
          version    |-> Str("v3")]

UserAgent == "Binance API Client (binance-cryptoexchange-api node package)"

defaultAgentConfig(v) ==
    LET headers(contentType) ==
            Obj(("Cache-Control" :> Str("no-cache")) @@
                ("Content-Length" :> Num(0)) @@
                ("Content-Type" :> Str(contentType)) @@
                ("User-Agent" :> Str(UserAgent)))
    IN IF v = 1
       THEN [baseURL |-> defaultConfig(v).rootUrl,
             headers |-> headers("text/plain"),
             method  |-> Str("GET"),
             timeout |-> defaultConfig(v).timeout]
       ELSE [baseURL        |-> defaultConfig(v).rootUrl,
             headers        |-> headers("application/x-www-form-urlencoded"),
             method         |-> Str("GET"),
             timeout        |-> defaultConfig(v).timeout,
             validateStatus |-> Fn("() => true")]

\* a public base that took the private one's verb
publicAgentConfigPost(v) == Merge(defaultAgentConfig(v), [method |-> Str("POST")])

publicAgentConfig(v) == defaultAgentConfig(v)

privateAgentConfig(v) == Merge(defaultAgentConfig(v), [method |-> Str("POST")])

---------------------------------------------------------------------------
(* signMessage *)

\* signedBody of signMessage: { ...postData, timestamp } and, in the later
\* variant, { ...postData, timestamp, recvWindow }
signedBody(v, postData, now) ==
    LET stamped == Put(Pairs(postData), "timestamp", Num(now))
    IN IF v = 1 THEN stamped
       ELSE Put(stamped, "recvWindow", defaultConfig(v).recvWindow)

\* a signer that spreads the caller's body over its own fields, so that the
\* caller's timestamp and recvWindow win
signMessageCallerWins(v, postData, secret, now) ==
    LET own        == IF v = 1 THEN << <<"timestamp", Num(now)>> >>
                      ELSE << <<"timestamp", Num(now)>>,
                              <<"recvWindow", defaultConfig(v).recvWindow>> >>
        caller     == Pairs(postData)
        merged     == [i \in 1..Len(own) |->
                          IF own[i][1] \in Keys(caller)
                          THEN <<own[i][1], Lookup(caller, own[i][1])>> ELSE own[i]]
                      \o SelectSeq(caller, LAMBDA p : p[1] \notin Keys(own))
        digest     == Hmac(secret, stringify(Body(merged)))
        body       == Put(merged, "signature", Str(digest))
    IN [body |-> Body(body), digest |-> Str(digest)]

\* signMessage(postData, secret) with Date.now() = now
signMessage(v, postData, secret, now) ==
    LET digest == Hmac(secret, stringify(Body(signedBody(v, postData, now))))
        body   == Put(signedBody(v, postData, now), "signature", Str(digest))
    IN [body |-> Body(body), digest |-> Str(digest)]

---------------------------------------------------------------------------
(* The agent's methods, as functions of the agent's state and the arguments *)

\* an isUpgraded that only asks whether auth is not null
isUpgradedNotNull(a) == Bool(a.t # "null")

\* isUpgraded(): returns this.auth itself, which the callers test for truth
isUpgraded(a) == a

AuthenticationRequired == Str("api keys are required to access private endpoints")

\* publicRequest up to its await: the agentConfig handed to axios
publicAgentRequest(v, endpoint, queryParams, configOverride) ==
    LET config == Merge(defaultConfig(v), Props(configOverride))
        uri    == "/" \o endpoint \o "?" \o stringify(queryParams)
    IN Merge(Merge(publicAgentConfig(v), [url |-> Str(uri)]), config)

\* the headers privateRequest composes
privateHeaders(v, a, config) ==
    LET fromConfig      == IF "headers" \in DOMAIN config
                           THEN config["headers"] ELSE Undefined
        headersOverride == IF Truthy(fromConfig) THEN fromConfig ELSE Null
    IN Obj(Merge(Merge(privateAgentConfig(v)["headers"].f,
                       "X-MBX-APIKEY" :> Get(a, "publicKey")),
                 Props(headersOverride)))

\* a placement that sends the signed data in the query string for every verb
privatePlacementAlwaysQuery(v, endpoint, method, data) ==
    IF v = 1
    THEN [url  |-> Str("/" \o endpoint \o "?" \o stringify(data)), data |-> Null]
    ELSE [url |-> Str("/" \o endpoint \o "?" \o stringify(data))]

\* a placement that, in both variants, sends the signed data as the body of
\* every verb but GET
privatePlacementByVerb(v, endpoint, method, data) ==
    [url  |-> Str(IF method = "GET"
                  THEN "/" \o endpoint \o "?" \o stringify(data)
                  ELSE "/" \o endpoint),
     data |-> IF method = "GET" THEN Null ELSE data]

\* where privateRequest puts the signed data: the url and, in the first
\* variant, the data field
privatePlacement(v, endpoint, method, data) ==
    IF v = 1
    THEN [url  |-> Str(IF method = "GET"
                       THEN "/" \o endpoint \o "?" \o stringify(data)
                       ELSE "/" \o endpoint),
          data |-> IF method = "GET" THEN Null ELSE data]
    ELSE [url |-> Str("/" \o endpoint \o "?" \o stringify(data))]

\* the last spread of privateRequest's agentConfig
privateCompose(base, late, config) == Merge(Merge(base, late), config)

\* privateRequest up to its await: either it has rejected already, or it has
\* handed agentConfig to axios
privateAgentRequest(v, a, endpoint, method, params, configOverride, now) ==
    IF ~Truthy(isUpgraded(a))
    THEN [sent |-> FALSE, reason |-> AuthenticationRequired]
    ELSE IF IsNullish(a)
    THEN [sent |-> FALSE, reason |-> TypeError("privateKey")]
    ELSE LET config        == Merge(defaultConfig(v), Props(configOverride))
             signatureData == signMessage(v, params, Get(a, "privateKey").s, now)
             headers       == privateHeaders(v, a, config)
             late          == Merge([headers |-> headers, method |-> Str(method)],
                                    privatePlacement(v, endpoint, method,
                                                     signatureData.body))
         IN [sent        |-> TRUE,
             agentConfig |-> privateCompose(privateAgentConfig(v), late, config)]

\* a catch block that prefers the payload to its error field
rejectionReasonPayloadFirst(err) ==
    LET response == Get(err, "response")
    IN IF IsNullish(response) THEN TypeError("data")
       ELSE LET data == Get(response, "data")
            IN IF IsNullish(data) THEN TypeError("error")
               ELSE LET error == Get(data, "error")
                    IN IF Truthy(data) THEN data
                       ELSE IF Truthy(error) THEN error
                       ELSE IF Truthy(response) THEN response
                       ELSE err

\* the catch block of privateRequest: err.response.data.error ||
\* err.response.data || err.response || err, where a read on undefined or
\* null throws
rejectionReason(err) ==
    LET response == Get(err, "response")
    IN IF IsNullish(response) THEN TypeError("data")
       ELSE LET data == Get(response, "data")
            IN IF IsNullish(data) THEN TypeError("error")
               ELSE LET error == Get(data, "error")
                    IN IF Truthy(error) THEN error
                       ELSE IF Truthy(data) THEN data
                       ELSE IF Truthy(response) THEN response
                       ELSE err

---------------------------------------------------------------------------
(* Bounds and the inputs the callers and the transport draw from *)

\* axios invocations a run may make
MaxInvocations == 2

\* promises a concurrent caller holds at once
MaxCalls == 2

Variants == {1, 2}

Pair(publicKey, privateKey) ==
    Obj([publicKey |-> Str(publicKey), privateKey |-> Str(privateKey)])

Credentials == {Pair("pk1", "sk1"), Pair("pk2", "sk2"), Pair("", "")}

\* what upgrade may be handed: it validates nothing
UpgradeArgs == Credentials \cup {Null}

Endpoints == {"order", "ticker"}

Methods == {"GET", "POST", "DELETE"}

\* values Date.now() may return
Clock == {1000, 2000}

Bodies ==
    {Undefined,
     Body(<< <<"symbol", Str("BTCUSDT")>> >>),
     Body(<< <<"symbol", Str("BTC USDT")>>, <<"limit", Num(5)>> >>),
     Body(<< <<"timestamp", Str("7")>>, <<"symbol", Str("BTCUSDT")>>,
             <<"signature", Str("forged")>>, <<"recvWindow", Num(1)>> >>)}

Overrides ==
    {Undefined,
     Obj([headers |-> Obj("X-Test" :> Str("1"))]),
     Obj([headers |-> Obj("X-MBX-APIKEY" :> Str("other"))]),
     Obj([method |-> Str("PUT")]),
     Obj([url |-> Str("/elsewhere")]),
     Obj([data |-> Str("raw")]),
     Obj([timeout |-> Num(10)])}

Responses == {Obj([status |-> Num(200), data |-> Obj([ok |-> Str("yes")])])}

ErrorWith(response) == Obj([message |-> Str("failed"), response |-> response])

\* what the transport may reject with
Errors ==
    {Obj([message |-> Str("ECONNREFUSED")]),
     ErrorWith(Obj([status |-> Num(500)])),
     ErrorWith(Obj([status |-> Num(500), data |-> Null])),
     ErrorWith(Obj([status |-> Num(500), data |-> Str("")])),
     ErrorWith(Obj([status |-> Num(400), data |-> Obj([code |-> Num(-1)])])),
     ErrorWith(Obj([status |-> Num(400),
                    data |-> Obj([error |-> Str("INSUFFICIENT_FUNDS"),
                                  code |-> Num(-2)])])),
     ErrorWith(Obj([status |-> Num(400),
                    data |-> Obj([error |-> Str(""), code |-> Num(-3)])]))}

\* the narrower inputs of the concurrent callers
FewBodies == {Undefined, Body(<< <<"symbol", Str("BTCUSDT")>> >>)}

FewOverrides == {Undefined, Obj([headers |-> Obj("X-Test" :> Str("1"))])}

FewErrors ==
    {Obj([message |-> Str("ECONNREFUSED")]),
     ErrorWith(Obj([status |-> Num(400), data |-> Obj([code |-> Num(-1)])]))}

---------------------------------------------------------------------------
(* State *)

\* calls: the promises the caller holds, oldest first.  Each is a record of
\* the call (its arguments, the credentials stored when it started, whether
\* it reached axios and with which agentConfig) and of its promise
\* (pending, resolved or rejected, and the value).

Pending(c) == c.status = "pending"

NewCall(kind, endpoint, method, params, override, now) ==
    [kind |-> kind, endpoint |-> endpoint, method |-> method, params |-> params,
     override |-> override, authAtStart |-> auth, now |-> now]

Init ==
    /\ variant \in Variants
    /\ auth \in {Undefined, Pair("pk1", "sk1")}
    /\ calls = <<>>
    /\ invocations = 0

\* the sequential caller settles and drops each promise before its next call
Sequential == calls = <<>>

\* the concurrent caller holds up to MaxCalls promises
Concurrent == Len(calls) < MaxCalls

---------------------------------------------------------------------------
(* Actions *)

\* an upgrade that clears the credentials it was to replace
UpgradeClears(newAuth) ==
    /\ auth' = Undefined
    /\ UNCHANGED <<variant, calls, invocations>>

\* upgrade(newAuth)
Upgrade(newAuth) ==
    /\ auth' = newAuth
    /\ UNCHANGED <<variant, calls, invocations>>

\* a publicRequest that adds the API key whenever credentials are stored
PublicRequestWithKey(endpoint, queryParams, configOverride) ==
    LET plain   == publicAgentRequest(variant, endpoint, queryParams, configOverride)
        headers == Obj(Merge(plain["headers"].f,
                             "X-MBX-APIKEY" :> Get(auth, "publicKey")))
    IN /\ invocations < MaxInvocations
       /\ calls' = Append(calls,
                          NewCall("public", endpoint, "GET", queryParams,
                                  configOverride, 0) @@
                          [sent        |-> TRUE,
                           agentConfig |-> IF Truthy(isUpgraded(auth))
                                           THEN Merge(plain, [headers |-> headers])
                                           ELSE plain,
                           status      |-> "pending",
                           value       |-> Undefined,
                           settlement  |-> Undefined])
       /\ invocations' = invocations + 1
       /\ UNCHANGED <<variant, auth>>

\* publicRequest(endpoint, queryParams, configOverride) up to its await
PublicRequest(endpoint, queryParams, configOverride) ==
    /\ invocations < MaxInvocations
    /\ calls' = Append(calls,
                       NewCall("public", endpoint, "GET", queryParams,
                               configOverride, 0) @@
                       [sent        |-> TRUE,
                        agentConfig |-> publicAgentRequest(variant, endpoint,
                                                queryParams, configOverride),
                        status      |-> "pending",
                        value       |-> Undefined,
                        settlement  |-> Undefined])
    /\ invocations' = invocations + 1
    /\ UNCHANGED <<variant, auth>>

\* privateRequest(endpoint, method, params, configOverride) up to its await,
\* or to its rejection when it does not get that far
PrivateRequest(endpoint, method, params, configOverride, now) ==
    LET r    == privateAgentRequest(variant, auth, endpoint, method, params,
                                    configOverride, now)
        call == NewCall("private", endpoint, method, params, configOverride, now)
    IN /\ invocations < MaxInvocations
       /\ IF r.sent
          THEN /\ calls' = Append(calls, call @@
                                  [sent        |-> TRUE,
                                   agentConfig |-> r.agentConfig,
                                   status      |-> "pending",
                                   value       |-> Undefined,
                                   settlement  |-> Undefined])
               /\ invocations' = invocations + 1
          ELSE /\ calls' = Append(calls, call @@
                                  [sent        |-> FALSE,
                                   agentConfig |-> <<>>,
                                   status      |-> "rejected",
                                   value       |-> r.reason,
                                   settlement  |-> Undefined])
               /\ invocations' = invocations
       /\ UNCHANGED <<variant, auth>>

\* agent.signMessage(postData, secret), which returns at once
SignMessage(postData, secret, now) ==
    /\ calls' = Append(calls,
                       [kind |-> "sign", params |-> postData, secret |-> secret,
                        now |-> now, sent |-> FALSE, status |-> "returned",
                        value |-> signMessage(variant, postData, secret, now)])
    /\ UNCHANGED <<variant, auth, invocations>>

\* axios resolves the i-th call: both methods return the response as it is
TransportResolve(i, response) ==
    /\ Pending(calls[i])
    /\ calls' = [calls EXCEPT ![i].status = "resolved",
                              ![i].value = response,
                              ![i].settlement = response]
    /\ UNCHANGED <<variant, auth, invocations>>

\* a failure handler that also drops the credentials of the agent
TransportRejectDropsAuth(i, err) ==
    /\ Pending(calls[i])
    /\ calls' = [calls EXCEPT ![i].status = "rejected",
                              ![i].value = IF calls[i].kind = "private"
                                           THEN rejectionReason(err) ELSE err,
                              ![i].settlement = err]
    /\ auth' = Undefined
    /\ UNCHANGED <<variant, invocations>>

\* a failure handler that sends the request once more before it gives up
TransportRejectRetries(i, err) ==
    /\ Pending(calls[i])
    /\ calls' = [calls EXCEPT ![i].status = "rejected",
                              ![i].value = IF calls[i].kind = "private"
                                           THEN rejectionReason(err) ELSE err,
                              ![i].settlement = err]
    /\ invocations' = invocations + 1
    /\ UNCHANGED <<variant, auth>>

\* axios rejects the i-th call: publicRequest lets the error through,
\* privateRequest rejects with what its catch block computes
TransportReject(i, err) ==
    /\ Pending(calls[i])
    /\ calls' = [calls EXCEPT ![i].status = "rejected",
                              ![i].value = IF calls[i].kind = "private"
                                           THEN rejectionReason(err) ELSE err,
                              ![i].settlement = err]
    /\ UNCHANGED <<variant, auth, invocations>>

\* the caller drops a settled promise
Discard(i) ==
    /\ ~Pending(calls[i])
    /\ calls' = [j \in 1..(Len(calls) - 1) |-> IF j < i THEN calls[j] ELSE calls[j + 1]]
    /\ UNCHANGED <<variant, auth, invocations>>

Next ==
    \/ \E newAuth \in UpgradeArgs : Upgrade(newAuth)
    \/ \E e \in Endpoints, q \in Bodies, o \in Overrides :
          Sequential /\ PublicRequest(e, q, o)
    \/ \E e \in Endpoints, m \in Methods, p \in Bodies, o \in Overrides, now \in Clock :
          Sequential /\ PrivateRequest(e, m, p, o, now)
    \/ \E p \in Bodies, s \in {"sk1", ""}, now \in Clock :
          Sequential /\ SignMessage(p, s, now)
    \/ \E i \in DOMAIN calls, r \in Responses : TransportResolve(i, r)
    \/ \E i \in DOMAIN calls, err \in Errors : TransportReject(i, err)
    \/ \E i \in DOMAIN calls : Discard(i)

Spec == Init /\ [][Next]_vars

NextConcurrent ==
    \/ \E newAuth \in {Pair("pk2", "sk2")} : Upgrade(newAuth)
    \/ \E o \in FewOverrides :
          Concurrent /\ PublicRequest("ticker", Body(<< <<"symbol", Str("BTCUSDT")>> >>), o)
    \/ \E m \in {"GET", "POST"}, p \in FewBodies, o \in FewOverrides :
          Concurrent /\ PrivateRequest("order", m, p, o, 1000)
    \/ \E i \in DOMAIN calls, r \in Responses : TransportResolve(i, r)
    \/ \E i \in DOMAIN calls, err \in FewErrors : TransportReject(i, err)
    \/ \E i \in DOMAIN calls : Discard(i)

SpecConcurrent == Init /\ [][NextConcurrent]_vars

---------------------------------------------------------------------------
(* Properties *)

Calls == { calls[i] : i \in DOMAIN calls }

PrivateCalls == { c \in Calls : c.kind = "private" }

PublicCalls == { c \in Calls : c.kind = "public" }

\* the private calls that reached axios
SentPrivate == { c \in PrivateCalls : c.sent }

\* the private calls whose transport call was rejected
FailedPrivate == { c \in SentPrivate : c.status = "rejected" }

\* the call a step has just added, when it added one
Started == Len(calls') = Len(calls) + 1

Header(c, name) == Get(c.agentConfig["headers"], name)

Field(c, name) ==
    IF name \in DOMAIN c.agentConfig THEN c.agentConfig[name] ELSE Undefined

\* C1: a privateRequest made while no credential pair is stored, whatever its
\* endpoint, method, params and override, is rejected with the
\* authentication-required error and does not invoke axios.
C1_NoCredentialsFailFast ==
    [][(Started /\ calls'[Len(calls')].kind = "private" /\ ~Truthy(auth))
         => /\ calls'[Len(calls')].status = "rejected"
            /\ calls'[Len(calls')].value = AuthenticationRequired
            /\ ~calls'[Len(calls')].sent
            /\ invocations' = invocations]_vars

\* a privateRequest with an override, on an agent built without credentials
\* and never upgraded, has been rejected and axios was never invoked
C1_Witness ==
    \E c \in PrivateCalls :
        /\ c.authAtStart = Undefined
        /\ c.override # Undefined
        /\ c.status = "rejected"
        /\ c.value = AuthenticationRequired
        /\ invocations = 0

\* the signed data of call c as privateRequest places it, signed with secret
PlacementOf(c, secret) ==
    privatePlacement(variant, c.endpoint, c.method,
                     signMessage(variant, c.params, secret, c.now).body)

\* call c carries the API key of pair and a signature keyed by pair's
\* private key
BuiltFrom(c, pair) ==
    /\ Header(c, "X-MBX-APIKEY") = Get(pair, "publicKey")
    /\ Field(c, "url") = PlacementOf(c, Get(pair, "privateKey").s).url
    /\ variant = 1 => Field(c, "data") = PlacementOf(c, Get(pair, "privateKey").s).data

\* C2: a privateRequest started after upgrade({pk2, sk2}) is signed with sk2
\* and carries X-MBX-APIKEY = pk2, and one whose transport call was issued
\* under the old pair keeps, after the upgrade, the descriptor built from
\* the old pair.
C2_UpgradeTakesEffectOnLaterCalls ==
    \A c \in SentPrivate :
        /\ c.authAtStart = Pair("pk2", "sk2") => BuiltFrom(c, Pair("pk2", "sk2"))
        /\ (c.authAtStart = Pair("pk1", "sk1") /\ auth = Pair("pk2", "sk2"))
              => BuiltFrom(c, Pair("pk1", "sk1"))

\* C3: once isUpgraded() is true it is true after every step.
C3_NeverBackToUnauthenticated ==
    [][Truthy(isUpgraded(auth)) => Truthy(isUpgraded(auth'))]_vars

\* C3 as amended: once isUpgraded() is true it stays true over every step
\* that is an upgrade with a credential pair or is no upgrade at all
\* (a request, a settlement).
C3_PairsKeepAuthenticated ==
    [][(/\ Truthy(isUpgraded(auth))
        /\ \/ \E a \in Credentials : Upgrade(a)
           \/ ~(\E a \in UpgradeArgs : Upgrade(a)))
         => Truthy(isUpgraded(auth'))]_vars

\* an agent built with credentials was upgraded to another pair, made a
\* private call that failed, and is still upgraded
C3_Witness ==
    /\ Truthy(isUpgraded(auth))
    /\ auth = Pair("", "")
    /\ \E c \in FailedPrivate : c.authAtStart = Pair("pk1", "sk1")

\* the response payload of the error a call was rejected with; only asked
\* of errors that have a response
PayloadOf(c) == Get(Get(c.settlement, "response"), "data")

\* the failed private calls whose error has a response with a data payload
WithPayload ==
    { c \in FailedPrivate :
        /\ ~IsNullish(Get(c.settlement, "response"))
        /\ ~IsNullish(PayloadOf(c)) }

HasKey(v, k) == v.t = "object" /\ k \in DOMAIN v.f

\* C4: when the transport's error has a response with a data payload, the
\* agent rejects with the payload's error field if the payload has one, else
\* with the payload.
C4_ErrorFieldThenPayload ==
    \A c \in WithPayload :
        c.value = IF HasKey(PayloadOf(c), "error")
                  THEN Get(PayloadOf(c), "error") ELSE PayloadOf(c)

\* C4 as amended: the agent rejects with the payload's error field if that
\* field is truthy, else with the payload if the payload is truthy.
C4_TruthyErrorFieldThenTruthyPayload ==
    \A c \in WithPayload :
        /\ Truthy(Get(PayloadOf(c), "error")) => c.value = Get(PayloadOf(c), "error")
        /\ (~Truthy(Get(PayloadOf(c), "error")) /\ Truthy(PayloadOf(c)))
              => c.value = PayloadOf(c)

\* a private call was rejected with the error field of a payload that also
\* holds other fields
C4_Witness ==
    \E c \in WithPayload :
        /\ HasKey(PayloadOf(c), "code")
        /\ Truthy(Get(PayloadOf(c), "error"))
        /\ c.value = Str("INSUFFICIENT_FUNDS")

\* C5: when the transport's error has a response without a data payload the
\* agent rejects with the response, and when it has no response the agent
\* rejects with the error itself.
C5_ResponseThenException ==
    \A c \in FailedPrivate :
        /\ (~IsNullish(Get(c.settlement, "response")) /\ PayloadOf(c) = Undefined)
              => c.value = Get(c.settlement, "response")
        /\ Get(c.settlement, "response") = Undefined => c.value = c.settlement

\* the calls that reached axios
Sent == { c \in Calls : c.kind \in {"public", "private"} /\ c.sent }

DefaultHeaders == DOMAIN defaultAgentConfig(variant).headers.f

\* C6: when the override of a publicRequest or privateRequest supplies
\* headers, the headers handed to axios hold every default header and every
\* header of the override.
C6_OverrideHeadersAreMerged ==
    \A c \in Sent :
        HasKey(c.override, "headers") =>
            /\ \A h \in DefaultHeaders : Header(c, h) # Undefined
            /\ \A h \in DOMAIN c.override.f["headers"].f :
                   Header(c, h) = c.override.f["headers"].f[h]

\* C7: for every privateRequest that reached axios, whatever its override,
\* X-MBX-APIKEY is the stored publicKey and method, url and data are the
\* ones computed from the method argument and the signed body.
C7_LateFieldsAreNotClobbered ==
    \A c \in SentPrivate :
        /\ Header(c, "X-MBX-APIKEY") = Get(c.authAtStart, "publicKey")
        /\ Field(c, "method") = Str(c.method)
        /\ Field(c, "url") = PlacementOf(c, Get(c.authAtStart, "privateKey").s).url
        /\ variant = 1 =>
              Field(c, "data") = PlacementOf(c, Get(c.authAtStart, "privateKey").s).data

\* C8: a publicRequest without override hands axios method GET, the url
\* "/" + endpoint + "?" + the serialisation of queryParams ("/" + endpoint +
\* "?" alone when queryParams is absent), and no data field.
C8_PublicDescriptor ==
    \A c \in PublicCalls :
        c.override = Undefined =>
            /\ Field(c, "method") = Str("GET")
            /\ Field(c, "url") = Str("/" \o c.endpoint \o "?" \o stringify(c.params))
            /\ c.params = Undefined => Field(c, "url") = Str("/" \o c.endpoint \o "?")
            /\ c.params = Body(<< <<"symbol", Str("BTCUSDT")>> >>)
                  => Field(c, "url") = Str("/" \o c.endpoint \o "?symbol=BTCUSDT")
            /\ c.params = Body(<< <<"symbol", Str("BTC USDT")>>, <<"limit", Num(5)>> >>)
                  => Field(c, "url") = Str("/" \o c.endpoint \o "?symbol=BTC%20USDT&limit=5")
            /\ "data" \notin DOMAIN c.agentConfig

\* publicRequest("ticker", {symbol: "BTCUSDT"}) reached axios with the url
\* /ticker?symbol=BTCUSDT
C8_Witness ==
    \E c \in PublicCalls :
        /\ c.override = Undefined
        /\ c.endpoint = "ticker"
        /\ c.params = Body(<< <<"symbol", Str("BTCUSDT")>> >>)
        /\ Field(c, "url") = Str("/ticker?symbol=BTCUSDT")

\* the body privateRequest signs for call c
SignedBodyOf(c) ==
    signMessage(variant, c.params, Get(c.authAtStart, "privateKey").s, c.now).body

\* C9: in the first variant, a privateRequest without override hands axios,
\* for GET, the url "/" + endpoint + "?" + the serialised signed body and
\* data null, and for every other verb the url "/" + endpoint and the signed
\* body as data.
C9_FirstVariantPlacement ==
    \A c \in SentPrivate :
        (variant = 1 /\ c.override = Undefined) =>
            IF c.method = "GET"
            THEN /\ Field(c, "url") =
                      Str("/" \o c.endpoint \o "?" \o stringify(SignedBodyOf(c)))
                 /\ Field(c, "data") = Null
            ELSE /\ Field(c, "url") = Str("/" \o c.endpoint)
                 /\ Field(c, "data") = SignedBodyOf(c)
                 /\ Keys(Field(c, "data").kv) =
                      Keys(Pairs(c.params)) \cup {"timestamp", "signature"}

\* a POST and a GET of the first variant, without override, reached axios
C9_Witness ==
    /\ variant = 1
    /\ \E c \in SentPrivate :
          /\ c.override = Undefined
          /\ c.method = "POST"
          /\ c.params = Body(<< <<"symbol", Str("BTCUSDT")>> >>)
          /\ Field(c, "url") = Str("/order")
          /\ Get(Field(c, "data"), "symbol") = Str("BTCUSDT")

\* the signMessage calls that returned
SignCalls == { c \in Calls : c.kind = "sign" }

\* the fields the signer sets itself, besides signature
SignerFields == IF variant = 1 THEN {"timestamp"} ELSE {"timestamp", "recvWindow"}

\* C10: signMessage(B, S) returns a body that holds every key of B, with B's
\* value unless the key is one the signer sets, plus the signer's timestamp
\* (and recvWindow = 5000 in the later variant) and the signature, and a
\* digest equal to body.signature.
C10_SignedBody ==
    \A c \in SignCalls :
        LET B    == Pairs(c.params)
            body == c.value.body
        IN /\ Keys(body.kv) = Keys(B) \cup SignerFields \cup {"signature"}
           /\ \A k \in Keys(B) \ (SignerFields \cup {"signature"}) :
                  Get(body, k) = Lookup(B, k)
           /\ Get(body, "timestamp") = Num(c.now)
           /\ variant = 2 => Get(body, "recvWindow") = Num(5000)
           /\ Get(body, "signature") = c.value.digest
           /\ c.value.digest.t = "string"

\* signMessage was handed a body that holds timestamp, recvWindow and
\* signature itself, and returned the signer's values for them
C10_Witness ==
    \E c \in SignCalls :
        /\ variant = 2
        /\ Get(c.params, "timestamp") = Str("7")
        /\ Get(c.params, "signature") = Str("forged")
        /\ Get(c.value.body, "timestamp") = Num(c.now)
        /\ Get(c.value.body, "symbol") = Str("BTCUSDT")

\* the call a step has just added
New == calls'[Len(calls')]

\* a step that ends a call in a rejection: a privateRequest refused for lack
\* of credentials, or a transport failure
Rejects ==
    \/ Started /\ New.status = "rejected"
    \/ \E i \in DOMAIN calls :
          /\ Len(calls') = Len(calls)
          /\ Pending(calls[i])
          /\ calls'[i].status = "rejected"

\* C11: a step that ends a call in a rejection leaves the stored credential
\* pair, and with it isUpgraded(), as they were, and a request started while
\* a rejected call is held is handled as its arguments and the stored pair
\* alone decide.
C11_FailuresLeaveTheAgentAsItWas ==
    [][/\ Rejects => (auth' = auth /\ isUpgraded(auth') = isUpgraded(auth))
       /\ (Started /\ New.kind = "private" /\ \E c \in Calls : c.status = "rejected")
            => LET r == privateAgentRequest(variant, auth', New.endpoint, New.method,
                                            New.params, New.override, New.now)
               IN /\ New.sent = r.sent
                  /\ r.sent => New.agentConfig = r.agentConfig
                  /\ ~r.sent => New.value = r.reason
       /\ (Started /\ New.kind = "public" /\ \E c \in Calls : c.status = "rejected")
            => /\ New.sent
               /\ New.agentConfig = publicAgentRequest(variant, New.endpoint,
                                                       New.params, New.override)]_vars

\* a private call failed in the transport, the pair it started with is still
\* stored, and a later private call reached axios with that pair's key
C11_Witness ==
    /\ Len(calls) = 2
    /\ calls[1].kind = "private" /\ calls[1].sent /\ calls[1].status = "rejected"
    /\ calls[2].kind = "private" /\ calls[2].sent
    /\ calls[2].override = Undefined
    /\ auth = calls[1].authAtStart
    /\ Get(calls[2].agentConfig["headers"], "X-MBX-APIKEY") = Get(auth, "publicKey")

\* C12: a publicRequest, and a privateRequest made while credentials are
\* stored, invokes axios exactly once; a privateRequest without credentials
\* does not invoke it; and no settlement, success or failure, invokes it
\* again.
C12_OneInvocationPerCall ==
    [][/\ (Started /\ New.kind = "public") => invocations' = invocations + 1
       /\ (Started /\ New.kind = "private")
            => invocations' = invocations + (IF Truthy(isUpgraded(auth)) THEN 1 ELSE 0)
       /\ ~(Started /\ New.kind \in {"public", "private"})
            => invocations' = invocations]_vars

\* two calls reached axios, one of them was rejected by the transport, and
\* axios was invoked twice
C12_Witness ==
    /\ invocations = 2
    /\ \E c \in Sent : c.status = "rejected" /\ c.settlement # Undefined

\* C13: in the later variant, a privateRequest without override hands axios,
\* for every verb, the url "/" + endpoint + "?" + the serialised signed body
\* (the params, timestamp, recvWindow, signature) and no data field.
C13_LaterVariantAlwaysQuery ==
    \A c \in SentPrivate :
        (variant = 2 /\ c.override = Undefined) =>
            /\ Field(c, "url") =
                  Str("/" \o c.endpoint \o "?" \o stringify(SignedBodyOf(c)))
            /\ Keys(SignedBodyOf(c).kv) =
                  Keys(Pairs(c.params)) \cup {"timestamp", "recvWindow", "signature"}
            /\ "data" \notin DOMAIN c.agentConfig
            /\ (c.params = Body(<< <<"symbol", Str("BTCUSDT")>> >>)
                  /\ c.authAtStart = Pair("pk1", "sk1") /\ c.now = 1000)
                 => Field(c, "url") =
                      Str("/" \o c.endpoint
                          \o "?symbol=BTCUSDT&timestamp=1000&recvWindow=5000&signature="
                          \o Hmac("sk1", "symbol=BTCUSDT&timestamp=1000&recvWindow=5000"))

\* a POST and a DELETE of the later variant, without override, reached axios
\* with the signed body in the url
C13_Witness ==
    /\ variant = 2
    /\ \E c \in SentPrivate :
          /\ c.override = Undefined
          /\ c.method \in {"POST", "DELETE"}
          /\ c.params = Body(<< <<"symbol", Str("BTCUSDT")>> >>)
          /\ c.authAtStart = Pair("pk1", "sk1")
          /\ c.now = 1000
          /\ "data" \notin DOMAIN c.agentConfig

\* the signature the descriptor of call c carries: the signature field of
\* its body when it has one, else none (the query string is compared whole)
SignatureInBody(c) == Get(Field(c, "data"), "signature")

\* the descriptor of call c carries the signature that signMessage computes
\* with secret over the call's params
SignedWith(c, secret) ==
    LET signed == signMessage(variant, c.params, secret, c.now)
    IN IF variant = 1 /\ c.method # "GET"
       THEN SignatureInBody(c) = signed.digest
       ELSE Field(c, "url") = Str("/" \o c.endpoint \o "?" \o stringify(signed.body))

\* C14: under any interleaving of upgrades and private calls, the descriptor
\* of every private call that reached axios takes both its signing key and
\* its X-MBX-APIKEY header from one pair, the one stored when the call
\* started.
C14_OnePairPerDescriptor ==
    \A c \in SentPrivate :
        \E pair \in Credentials :
            /\ pair = c.authAtStart
            /\ SignedWith(c, Get(pair, "privateKey").s)
            /\ Header(c, "X-MBX-APIKEY") = Get(pair, "publicKey")

\* the private calls that reached axios with the url the agent computed and
\* whose signed data the agent places in the query string
SentInQuery ==
    { c \in SentPrivate :
        /\ variant = 2 \/ c.method = "GET"
        /\ ~HasKey(c.override, "url") }

\* the string signMessage computes the HMAC over, for call c
SignedString(c) == stringify(Body(signedBody(variant, c.params, c.now)))

\* C15: the query string of a private request whose signed data goes in the
\* query string is the string the HMAC was computed over, followed by the
\* signature as the last parameter.
C15_QueryIsSignedStringThenSignature ==
    \A c \in SentInQuery :
        Field(c, "url") =
            Str("/" \o c.endpoint \o "?" \o SignedString(c) \o "&signature="
                \o Hmac(Get(c.authAtStart, "privateKey").s, SignedString(c)))

\* the X-MBX-APIKEY header the override of call c supplies itself, if any
OwnApiKey(c) ==
    IF HasKey(c.override, "headers")
    THEN Get(c.override.f["headers"], "X-MBX-APIKEY") ELSE Undefined

\* C16: a publicRequest reaches axios whatever the credential state, two
\* publicRequests with the same endpoint, queryParams and override hand
\* axios the same descriptor whatever pair, or none, was stored when each
\* started, and the descriptor holds no X-MBX-APIKEY of the agent and no
\* timestamp or signature.
C16_PublicIgnoresCredentials ==
    /\ \A c \in PublicCalls :
          /\ c.sent
          /\ c.value # AuthenticationRequired
          /\ Header(c, "X-MBX-APIKEY") = OwnApiKey(c)
          /\ ~HasKey(c.override, "url")
                => Field(c, "url") = Str("/" \o c.endpoint \o "?" \o stringify(c.params))
          /\ ~HasKey(c.override, "data") => "data" \notin DOMAIN c.agentConfig
    /\ \A c, d \in PublicCalls :
          (c.endpoint = d.endpoint /\ c.params = d.params /\ c.override = d.override)
             => c.agentConfig = d.agentConfig

\* the same publicRequest was made before any credentials were stored and
\* again after an upgrade, and both reached axios with one descriptor
C16_Witness ==
    \E c, d \in PublicCalls :
        /\ c.authAtStart = Undefined
        /\ d.authAtStart = Pair("pk2", "sk2")
        /\ c.endpoint = d.endpoint /\ c.params = d.params /\ c.override = d.override
        /\ c.agentConfig = d.agentConfig
        /\ Header(d, "X-MBX-APIKEY") = Undefined

====
